---- MODULE Spec2Model ----
(***************************************************************************)
(* Model of the Excel-Validator backend: the type classifier, the cell     *)
(* validator, the duplicate detector (app/services/excel_service.py) and   *)
(* the session operations driven by the request handlers (app/main.py).    *)
(*                                                                         *)
(* Python strings are sequences of one-character strings, so that strip,   *)
(* lower, isdigit and float() are computed.  A cell value is a record      *)
(* [k, n, s]: k is the Python type ("none", "bool", "int", "float", "nan", *)
(* "ts", "str"), n the number (for a float: twice its value, so that 3     *)
(* stands for 1.5), s the characters of a string.                          *)
(***************************************************************************)
EXTENDS Integers, Sequences, FiniteSets, TLC

VARIABLES
    numericDates,   \* whether pandas.to_datetime accepts a numeric-looking string
    sessions,       \* SessionStore._sessions: session id -> SessionData
    payload,        \* the payload returned by the last request
    pc,             \* position of the request being served
    req,            \* the request being served (or the last one served)
    ops,            \* number of requests served so far
    fnArgs,         \* arguments of a direct call of a service function
    fnResult,       \* its result
    fnPc,           \* "start" before the call, "done" after it
    tasks,          \* the handler coroutines of concurrent requests, with their locals
    loop,           \* the coroutine the event loop is running, "none" between coroutines
    _lock           \* SessionStore._lock: the coroutine holding it, or "free"

vars == <<numericDates, sessions, payload, pc, req, ops, fnArgs, fnResult, fnPc,
          tasks, loop, _lock>>

----------------------------------------------------------------------------
(* Python str methods *)

Digits == {"0", "1", "2", "3", "4", "5", "6", "7", "8", "9"}

Whitespace == {" "}

UpperCase == <<"A", "B", "C", "D", "E", "F", "G", "H", "I", "J", "K", "L", "M",
               "N", "O", "P", "Q", "R", "S", "T", "U", "V", "W", "X", "Y", "Z">>

LowerCase == <<"a", "b", "c", "d", "e", "f", "g", "h", "i", "j", "k", "l", "m",
               "n", "o", "p", "q", "r", "s", "t", "u", "v", "w", "x", "y", "z">>

LowerChar(c) ==
    IF \E i \in 1..Len(UpperCase) : UpperCase[i] = c
    THEN LowerCase[CHOOSE i \in 1..Len(UpperCase) : UpperCase[i] = c]
    ELSE c

StrLower(s) == [i \in 1..Len(s) |-> LowerChar(s[i])]

RECURSIVE LStrip(_)
LStrip(s) ==
    IF s # <<>> /\ Head(s) \in Whitespace THEN LStrip(Tail(s)) ELSE s

RECURSIVE RStrip(_)
RStrip(s) ==
    IF s # <<>> /\ s[Len(s)] \in Whitespace
    THEN RStrip(SubSeq(s, 1, Len(s) - 1))
    ELSE s

StrStrip(s) == RStrip(LStrip(s))

IsDigitStr(s) == Len(s) > 0 /\ \A i \in 1..Len(s) : s[i] \in Digits

(* float(str): surrounding whitespace, an optional sign, then a decimal    *)
(* number with an optional exponent, or inf / infinity / nan in any case.  *)
(* Digit-group underscores are outside the model's alphabet.               *)
IsDecimal(s) ==
    \/ IsDigitStr(s)
    \/ \E i \in 1..Len(s) :
          /\ s[i] = "."
          /\ LET a == SubSeq(s, 1, i - 1)
                 b == SubSeq(s, i + 1, Len(s))
             IN  /\ a = <<>> \/ IsDigitStr(a)
                 /\ b = <<>> \/ IsDigitStr(b)
                 /\ a # <<>> \/ b # <<>>

IsExponent(s) ==
    IF s # <<>> /\ Head(s) \in {"+", "-"} THEN IsDigitStr(Tail(s)) ELSE IsDigitStr(s)

IsFloatBody(s) ==
    \/ IsDecimal(s)
    \/ \E i \in 1..Len(s) :
          /\ s[i] \in {"e", "E"}
          /\ IsDecimal(SubSeq(s, 1, i - 1))
          /\ IsExponent(SubSeq(s, i + 1, Len(s)))
    \/ StrLower(s) \in { <<"i", "n", "f">>, <<"n", "a", "n">>,
                         <<"i", "n", "f", "i", "n", "i", "t", "y">> }

ParsesAsFloat(s) ==
    LET t == StrStrip(s)
    IN  IF t # <<>> /\ Head(t) \in {"+", "-"} THEN IsFloatBody(Tail(t)) ELSE IsFloatBody(t)

(* pandas.to_datetime(value, errors="coerce") is a library call.  It       *)
(* accepts an ISO date, with or without a time part; it rejects text that  *)
(* holds no date; whether it accepts a numeric-looking string depends on   *)
(* the library version, which numericDates stands for.                     *)
DigitSeq == <<"0", "1", "2", "3", "4", "5", "6", "7", "8", "9">>

DigitVal(c) == (CHOOSE j \in 1..10 : DigitSeq[j] = c) - 1

IsTwoDigits(s, lo, hi) ==
    /\ Len(s) = 2
    /\ IsDigitStr(s)
    /\ 10 * DigitVal(s[1]) + DigitVal(s[2]) \in lo..hi

IsIsoDate(s) ==
    /\ Len(s) = 10
    /\ IsDigitStr(SubSeq(s, 1, 4))
    /\ s[5] = "-"
    /\ IsTwoDigits(SubSeq(s, 6, 7), 1, 12)
    /\ s[8] = "-"
    /\ IsTwoDigits(SubSeq(s, 9, 10), 1, 28)

IsIsoTime(s) ==
    /\ Len(s) = 8
    /\ IsTwoDigits(SubSeq(s, 1, 2), 0, 23)
    /\ s[3] = ":"
    /\ IsTwoDigits(SubSeq(s, 4, 5), 0, 59)
    /\ s[6] = ":"
    /\ IsTwoDigits(SubSeq(s, 7, 8), 0, 59)

ParsesAsDate(s) ==
    \/ IsIsoDate(s)
    \/ /\ Len(s) = 19
       /\ IsIsoDate(SubSeq(s, 1, 10))
       /\ s[11] = "T"
       /\ IsIsoTime(SubSeq(s, 12, 19))
    \/ ParsesAsFloat(s) /\ numericDates

----------------------------------------------------------------------------
(* Cell values *)

NoneV == [k |-> "none", n |-> 0, s |-> <<>>]

BoolV(b) == [k |-> "bool", n |-> IF b THEN 1 ELSE 0, s |-> <<>>]

IntV(i) == [k |-> "int", n |-> i, s |-> <<>>]

FloatV(twice) == [k |-> "float", n |-> twice, s |-> <<>>]

NaNV == [k |-> "nan", n |-> 0, s |-> <<>>]

TsV(day) == [k |-> "ts", n |-> day, s |-> <<>>]

StrV(chars) == [k |-> "str", n |-> 0, s |-> chars]

(* the strings of the sample cells *)
S_empty == <<>>

S_blank == <<" ">>

S_2 == <<"2">>

S_03 == <<"0", "3">>

S_7 == <<"7">>

S_neg5 == <<"-", "5">>

S_1p5 == <<"1", ".", "5">>

S_yes == <<"y", "e", "s">>

S_YES_ == <<"Y", "E", "S", " ">>

S_no == <<"n", "o">>

S_abc == <<"a", "b", "c">>

S_x == <<"x">>

S__X == <<" ", "X">>

S_day == <<"2", "0", "2", "4", "-", "0", "1", "-", "0", "2">>

IsFloatKind(v) == v.k \in {"float", "nan"}

(* the type tags, as Python strings *)
T_integer == <<"i", "n", "t", "e", "g", "e", "r">>

T_float == <<"f", "l", "o", "a", "t">>

T_boolean == <<"b", "o", "o", "l", "e", "a", "n">>

T_date == <<"d", "a", "t", "e">>

T_string == <<"s", "t", "r", "i", "n", "g">>

TYPE_PRIORITY == <<T_integer, T_float, T_boolean, T_date, T_string>>

ALLOWED_TYPES == {TYPE_PRIORITY[i] : i \in 1..Len(TYPE_PRIORITY)}

BoolWords == { <<"t", "r", "u", "e">>, <<"f", "a", "l", "s", "e">>, <<"y", "e", "s">>,
               <<"n", "o">>, <<"0">>, <<"1">> }

_is_null(v) ==
    IF v.k = "none" THEN TRUE
    ELSE IF v.k = "str" THEN StrStrip(v.s) = <<>>
    ELSE IF IsFloatKind(v) THEN v.k = "nan"
    ELSE FALSE

_looks_like_int(v) ==
    IF v.k = "bool" THEN FALSE
    ELSE IF v.k = "int" THEN TRUE
    ELSE IF IsFloatKind(v) THEN v.k = "float" /\ v.n % 2 = 0
    ELSE IF v.k = "str"
         THEN LET t == StrStrip(v.s)
              IN  IF t # <<>> /\ Head(t) = "-" THEN IsDigitStr(Tail(t)) ELSE IsDigitStr(t)
    ELSE FALSE

_looks_like_float(v) ==
    IF v.k = "bool" THEN FALSE
    ELSE IF v.k = "int" \/ IsFloatKind(v) THEN TRUE
    ELSE IF v.k = "str" THEN ParsesAsFloat(v.s)
    ELSE FALSE

_looks_like_bool(v) ==
    IF v.k = "bool" THEN TRUE
    ELSE IF v.k = "str" THEN StrLower(StrStrip(v.s)) \in BoolWords
    ELSE IF v.k = "int" THEN v.n \in {0, 1}
    ELSE IF IsFloatKind(v) THEN v.k = "float" /\ v.n \in {0, 2}
    ELSE FALSE

_looks_like_date(v) ==
    IF v.k = "ts" THEN TRUE
    ELSE IF v.k = "str"
         THEN IF StrStrip(v.s) = <<>> THEN FALSE ELSE ParsesAsDate(v.s)
    ELSE FALSE

(* variant: no early return for a null value *)
_is_valid_NullChecked(v, expected_type) ==
    LET t == IF expected_type \notin ALLOWED_TYPES THEN T_string ELSE expected_type
    IN  IF t = T_string THEN TRUE
        ELSE IF t = T_integer THEN _looks_like_int(v)
        ELSE IF t = T_float THEN _looks_like_float(v)
        ELSE IF t = T_boolean THEN _looks_like_bool(v)
        ELSE IF t = T_date THEN _looks_like_date(v)
        ELSE TRUE

_is_valid(v, expected_type) ==
    LET t == IF expected_type \notin ALLOWED_TYPES THEN T_string ELSE expected_type
    IN  IF _is_null(v) THEN TRUE
        ELSE IF t = T_string THEN TRUE
        ELSE IF t = T_integer THEN _looks_like_int(v)
        ELSE IF t = T_float THEN _looks_like_float(v)
        ELSE IF t = T_boolean THEN _looks_like_bool(v)
        ELSE IF t = T_date THEN _looks_like_date(v)
        ELSE TRUE

(* the tag one value scores for in detect_column_type *)
ScoredTag(v) ==
    IF _looks_like_int(v) THEN T_integer
    ELSE IF _looks_like_float(v) THEN T_float
    ELSE IF _looks_like_bool(v) THEN T_boolean
    ELSE IF _looks_like_date(v) THEN T_date
    ELSE T_string

(* scores[i] is the number of values that scored for TYPE_PRIORITY[i] *)
Scores(values) ==
    [i \in 1..Len(TYPE_PRIORITY) |->
        Cardinality({p \in 1..Len(values) :
                        ~ _is_null(values[p]) /\ ScoredTag(values[p]) = TYPE_PRIORITY[i]})]

(* variant: a tie goes to the later tag *)
KeyLess_TieToLast(scores, i, j) ==
    \/ scores[i] < scores[j]
    \/ scores[i] = scores[j] /\ i < j

(* max(TYPE_PRIORITY, key=(score, -index)): a pair is compared score first *)
KeyLess(scores, i, j) ==
    \/ scores[i] < scores[j]
    \/ scores[i] = scores[j] /\ (0 - i) < (0 - j)

BestIndex(scores) ==
    CHOOSE i \in 1..Len(TYPE_PRIORITY) :
        \A j \in 1..Len(TYPE_PRIORITY) : j # i => KeyLess(scores, j, i)

BestType(scores) ==
    LET best == BestIndex(scores)
    IN  IF scores[best] = 0 THEN T_string ELSE TYPE_PRIORITY[best]

(* scores ranges over the one value of Scores(values), computed once *)
detect_column_type(values) ==
    CHOOSE best_type \in {BestType(scores) : scores \in {Scores(values)}} : TRUE

----------------------------------------------------------------------------
(* Rows, validation and duplicate detection.  A row is [rowId, values],    *)
(* values a function from column names to cell values; a dict that keeps   *)
(* insertion order (expected_types, detected_types, seen) is a sequence of *)
(* <<key, value>> pairs.  The message of an error is a rendering of its    *)
(* expectedType and actualValue and is left out.                           *)

Get(values, column) == IF column \in DOMAIN values THEN values[column] ELSE NoneV

Keys(dict) == [i \in 1..Len(dict) |-> dict[i][1]]

HasKey(dict, key) == \E i \in 1..Len(dict) : dict[i][1] = key

Lookup(dict, key) == dict[CHOOSE i \in 1..Len(dict) : dict[i][1] = key][2]

DictSet(dict, key, value) ==
    IF HasKey(dict, key)
    THEN [i \in 1..Len(dict) |-> IF dict[i][1] = key THEN <<key, value>> ELSE dict[i]]
    ELSE Append(dict, <<key, value>>)

RECURSIVE RowErrors(_, _)
RowErrors(row, expected_types) ==
    IF expected_types = <<>> THEN <<>>
    ELSE LET n             == Len(expected_types)
             column        == expected_types[n][1]
             expected_type == expected_types[n][2]
             value         == Get(row.values, column)
             before        == RowErrors(row, SubSeq(expected_types, 1, n - 1))
         IN  IF ~ _is_valid(value, expected_type)
             THEN Append(before, [rowId |-> row.rowId, column |-> column,
                                  expectedType |-> expected_type, actualValue |-> value])
             ELSE before

RECURSIVE AllErrors(_, _)
AllErrors(rows, expected_types) ==
    IF rows = <<>> THEN <<>>
    ELSE AllErrors(SubSeq(rows, 1, Len(rows) - 1), expected_types)
            \o RowErrors(rows[Len(rows)], expected_types)

(* variant: strings trimmed but not lower-cased *)
_coerce_duplicate_value_CaseKept(v) ==
    IF v.k = "str" THEN StrV(StrStrip(v.s))
    ELSE IF IsFloatKind(v) /\ v.k = "nan" THEN NoneV
    ELSE v

_coerce_duplicate_value(v) ==
    IF v.k = "str" THEN StrV(StrLower(StrStrip(v.s)))
    ELSE IF IsFloatKind(v) /\ v.k = "nan" THEN NoneV
    ELSE v

(* Python == on cell values, which the dict lookup of seen uses: bool, int *)
(* and float compare by number, NaN equals nothing                         *)
IsNumber(v) == v.k \in {"bool", "int", "float"}

Twice(v) == IF v.k = "float" THEN v.n ELSE 2 * v.n

PyEq(a, b) ==
    IF IsNumber(a) /\ IsNumber(b) THEN Twice(a) = Twice(b)
    ELSE IF a.k = "nan" \/ b.k = "nan" THEN FALSE
    ELSE a = b

TupleEq(x, y) == Len(x) = Len(y) /\ \A i \in 1..Len(x) : PyEq(x[i], y[i])

DuplicateKey(row, columns) ==
    [i \in 1..Len(columns) |-> _coerce_duplicate_value(Get(row.values, columns[i]))]

SetDefaultAppend(seen, key, rowId) ==
    IF \E i \in 1..Len(seen) : TupleEq(seen[i][1], key)
    THEN [i \in 1..Len(seen) |->
             IF TupleEq(seen[i][1], key) THEN <<seen[i][1], Append(seen[i][2], rowId)>>
             ELSE seen[i]]
    ELSE Append(seen, <<key, <<rowId>> >>)

RECURSIVE Seen(_, _)
Seen(rows, columns) ==
    IF rows = <<>> THEN <<>>
    ELSE LET row == rows[Len(rows)]
         IN  SetDefaultAppend(Seen(SubSeq(rows, 1, Len(rows) - 1), columns),
                              DuplicateKey(row, columns), row.rowId)

(* variant: groups of one row are emitted too *)
GroupFilter_Singletons(group) == Len(group) > 0

GroupFilter(group) == Len(group) > 1

identify_duplicates(rows, columns) ==
    LET seen == Seen(rows, columns)
    IN  SelectSeq([i \in 1..Len(seen) |-> seen[i][2]], GroupFilter)

validate_rows(rows, expected_types) ==
    [errors           |-> AllErrors(rows, expected_types),
     duplicate_groups |-> identify_duplicates(rows, Keys(expected_types))]

----------------------------------------------------------------------------
(* Table loading and the initial build of a sheet *)

(* a Python Optional[str]: None is no character sequence *)
None == <<"None">>

Truthy(x) == x # None /\ x # <<>>

Or(a, b) == IF Truthy(a) THEN a ELSE b

(* pandas.Timestamp.isoformat() of the Timestamp of day v.n of January 2024 *)
IsoFormat(v) ==
    <<"2", "0", "2", "4", "-", "0", "1", "-", "0", DigitSeq[v.n + 1],
      "T", "0", "0", ":", "0", "0", ":", "0", "0">>

_normalize_cell_value(v) ==
    IF v.k = "ts" THEN StrV(IsoFormat(v))
    ELSE IF IsFloatKind(v) /\ v.k = "nan" THEN StrV(<<>>)
    ELSE v

IsNA(v) == v.k \in {"none", "nan"}

(* df is the DataFrame pandas.read_excel returns for the sheet:            *)
(* [columns, data], data a sequence of functions from column to value      *)
read_excel_into_rows(df) ==
    [rows    |-> [idx \in 1..Len(df.data) |->
                    [rowId  |-> idx - 1,
                     values |-> [c \in DOMAIN df.data[idx] |->
                                   IF IsNA(df.data[idx][c]) THEN StrV(<<>>)
                                   ELSE _normalize_cell_value(df.data[idx][c])]]],
     columns |-> df.columns]

detect_types(rows, columns) ==
    LET Column(c) == [i \in 1..Len(rows) |-> Get(rows[i].values, c)]
    IN  [i \in 1..Len(columns) |-> <<columns[i], detect_column_type(Column(columns[i]))>>]

Workbook1 ==
    [sheet_names |-> <<"S1", "S2">>,
     sheets |->
        [S1 |-> [columns |-> <<"A", "B">>,
                 data    |-> <<[A |-> IntV(1), B |-> StrV(S_x)],
                               [A |-> IntV(1), B |-> StrV(S__X)],
                               [A |-> StrV(S_abc), B |-> StrV(S_2)],
                               [A |-> StrV(S_1p5), B |-> StrV(S_day)]>>],
         S2 |-> [columns |-> <<"A", "C">>,
                 data    |-> <<[A |-> TsV(2), C |-> BoolV(TRUE)],
                               [A |-> StrV(S_2), C |-> FloatV(3)],
                               [A |-> NaNV, C |-> NaNV]>>]]]

Workbook2 ==
    [sheet_names |-> <<"Data">>,
     sheets |->
        [Data |-> [columns |-> <<"A", "B">>,
                   data    |-> <<[A |-> FloatV(3), B |-> StrV(S_yes)],
                                 [A |-> FloatV(2), B |-> StrV(S_no)],
                                 [A |-> FloatV(3), B |-> StrV(S_YES_)]>>]]]

(* the uploaded files, and what pandas reads from their bytes *)
Workbooks == {"W1", "W2"}

ReadExcel(file_bytes) == IF file_bytes = "W1" THEN Workbook1 ELSE Workbook2

parse_sheet(file_bytes, sheet_name) ==
    LET table          == read_excel_into_rows(ReadExcel(file_bytes).sheets[sheet_name])
        detected_types == detect_types(table.rows, table.columns)
        result         == validate_rows(table.rows, detected_types)
    IN  [rows             |-> table.rows,
         columns          |-> table.columns,
         detected_types   |-> detected_types,
         column_info      |-> [i \in 1..Len(table.columns) |->
                                 [name         |-> table.columns[i],
                                  detectedType |-> Lookup(detected_types, table.columns[i]),
                                  overrideType |-> None,
                                  nullable     |-> TRUE]],
         errors           |-> result.errors,
         duplicate_groups |-> result.duplicate_groups]

EmptyDict == [c \in {} |-> None]

process_uploaded_file(file_bytes) ==
    LET sheet_names == ReadExcel(file_bytes).sheet_names
        sheet_name  == sheet_names[1]
        parsed      == parse_sheet(file_bytes, sheet_name)
    IN  [rows             |-> parsed.rows,
         columns          |-> parsed.columns,
         detected_types   |-> parsed.detected_types,
         column_info      |-> parsed.column_info,
         errors           |-> parsed.errors,
         duplicate_groups |-> parsed.duplicate_groups,
         overrides        |-> EmptyDict,
         workbook_bytes   |-> file_bytes,
         sheet_name       |-> sheet_name,
         sheet_names      |-> sheet_names]

Payload(s) ==
    [columns         |-> s.column_info,
     rows            |-> s.rows,
     errors          |-> s.errors,
     duplicateGroups |-> s.duplicate_groups,
     sheetName       |-> s.sheet_name,
     sheetNames      |-> s.sheet_names]

----------------------------------------------------------------------------
(* revalidate and remove_rows *)

_normalize_type(value) ==
    IF value = None THEN None
    ELSE LET normalized == StrLower(value)
         IN  IF normalized \in ALLOWED_TYPES THEN normalized ELSE None

DictGet(dict, key, default) == IF HasKey(dict, key) THEN Lookup(dict, key) ELSE default

SeqContains(seq, x) == \E i \in 1..Len(seq) : seq[i] = x

(* the column_info list built from a non-empty payload.columns *)
ColumnInfoFrom(s, column_info_payload) ==
    [i \in 1..Len(column_info_payload) |->
        LET column == column_info_payload[i]
        IN  [name         |-> column.name,
             detectedType |-> Or(column.detectedType,
                                 DictGet(s.detected_types, column.name, T_string)),
             overrideType |-> column.overrideType,
             nullable     |-> column.nullable]]

CoercedOverrides(columns, overrides) ==
    [c \in {x \in DOMAIN overrides : SeqContains(columns, x)} |-> _normalize_type(overrides[c])]

(* variant: the overrideType on the column wins over the new override *)
OverrideType_ColumnFirst(coerced_overrides, column) ==
    Or(column.overrideType,
       IF column.name \in DOMAIN coerced_overrides THEN coerced_overrides[column.name] ELSE None)

OverrideType(coerced_overrides, column) ==
    Or(IF column.name \in DOMAIN coerced_overrides THEN coerced_overrides[column.name] ELSE None,
       column.overrideType)

ExpectedType(s, coerced_overrides, column) ==
    LET override_type == OverrideType(coerced_overrides, column)
        detected_type == Or(column.detectedType, DictGet(s.detected_types, column.name, T_string))
    IN  Or(override_type, Or(detected_type, T_string))

RECURSIVE ExpectedTypes(_, _, _)
ExpectedTypes(s, coerced_overrides, column_info) ==
    IF column_info = <<>> THEN <<>>
    ELSE LET n      == Len(column_info)
             column == column_info[n]
         IN  DictSet(ExpectedTypes(s, coerced_overrides, SubSeq(column_info, 1, n - 1)),
                     column.name, ExpectedType(s, coerced_overrides, column))

revalidate(s, rows, overrides, column_info_payload) ==
    LET column_info       == IF column_info_payload # <<>>
                             THEN ColumnInfoFrom(s, column_info_payload)
                             ELSE s.column_info
        columns           == IF column_info_payload # <<>>
                             THEN [i \in 1..Len(column_info) |-> column_info[i].name]
                             ELSE s.columns
        coerced_overrides == CoercedOverrides(columns, overrides)
        expected_types    == ExpectedTypes(s, coerced_overrides, column_info)
        result            == validate_rows(rows, expected_types)
    IN  [s EXCEPT
           !.column_info      = [i \in 1..Len(column_info) |->
                                   LET override_type == OverrideType(coerced_overrides, column_info[i])
                                   IN  IF Truthy(override_type)
                                       THEN [column_info[i] EXCEPT !.overrideType = override_type]
                                       ELSE column_info[i]],
           !.columns          = columns,
           !.rows             = rows,
           !.overrides        = coerced_overrides,
           !.errors           = result.errors,
           !.duplicate_groups = result.duplicate_groups,
           !.detected_types   = expected_types]

(* variant: the rows to remove are the ones kept *)
KeepRow_Inverted(row, removal_set) == row.rowId \in removal_set

KeepRow(row, removal_set) == row.rowId \notin removal_set

RECURSIVE FilterRows(_, _)
FilterRows(rows, removal_set) ==
    IF rows = <<>> THEN <<>>
    ELSE IF KeepRow(Head(rows), removal_set)
         THEN <<Head(rows)>> \o FilterRows(Tail(rows), removal_set)
         ELSE FilterRows(Tail(rows), removal_set)

(* variant: enumerate(filtered_rows, 1) *)
NewRowId_OneBased(idx) == idx

NewRowId(idx) == idx - 1

remove_rows(s, row_ids) ==
    LET filtered_rows == FilterRows(s.rows, row_ids)
    IN  [s EXCEPT !.rows = [idx \in 1..Len(filtered_rows) |->
                              [filtered_rows[idx] EXCEPT !.rowId = NewRowId(idx)]]]

----------------------------------------------------------------------------
(* Direct calls of the service functions, as the unit tests make them *)

MaxDetectLen == 3

MaxValidateRows == 2

MaxDuplicateRows == 3

RECURSIVE SeqsUpTo(_, _)
SeqsUpTo(S, n) ==
    IF n = 0 THEN {<<>>}
    ELSE LET shorter == SeqsUpTo(S, n - 1)
         IN  shorter \cup {Append(q, x) : q \in shorter, x \in S}

DetectSamples ==
    {IntV(1), FloatV(2), FloatV(3), BoolV(TRUE), TsV(1), NoneV, NaNV,
     StrV(S_empty), StrV(S_blank), StrV(S_2), StrV(S_neg5), StrV(S_1p5),
     StrV(S_yes), StrV(S_day), StrV(S_abc)}

(* the list of test_detect_column_type_prefers_integer_when_majority_numeric *)
ScenarioC == <<IntV(1), StrV(S_2), StrV(S_03), NoneV, StrV(S_empty)>>

DetectInputs == SeqsUpTo(DetectSamples, MaxDetectLen) \cup {ScenarioC}

(* rows given as sequences of values functions; ids is "dense" (0, 1, ..)  *)
(* or "sparse" (5, 7, ..)                                                  *)
RowIdOf(ids, idx) == IF ids = "dense" THEN idx - 1 ELSE 2 * idx + 3

MakeRows(valueSeq, ids) ==
    [idx \in 1..Len(valueSeq) |-> [rowId |-> RowIdOf(ids, idx), values |-> valueSeq[idx]]]

ValidateCellsA ==
    {NoneV, NaNV, StrV(S_blank), IntV(1), FloatV(3), BoolV(TRUE), StrV(S_abc), StrV(S_day)}

ValidateCellsB == {StrV(S_abc), StrV(S_2)}

ValidateRowValues ==
    {[A |-> a, B |-> b] : a \in ValidateCellsA, b \in ValidateCellsB}
        \cup {[B |-> b] : b \in ValidateCellsB}
        \cup {[A |-> a] : a \in ValidateCellsA}

T_currency == <<"c", "u", "r", "r", "e", "n", "c", "y">>

T_INTEGER == <<"I", "N", "T", "E", "G", "E", "R">>

ExpectedTypeInputs ==
    { << <<"A", T_integer>>, <<"B", T_string>> >>,
      << <<"B", T_integer>>, <<"A", T_float>> >>,
      << <<"A", T_boolean>>, <<"B", T_date>> >>,
      << <<"A", T_date>> >>,
      << <<"A", T_currency>>, <<"B", T_INTEGER>> >> }

DuplicateRowValues ==
    {[A |-> IntV(1), B |-> StrV(S_x)],
     [A |-> IntV(1), B |-> StrV(S__X)],
     [A |-> IntV(2), B |-> StrV(<<"y">>)],
     [A |-> FloatV(2), B |-> StrV(S_x)],
     [A |-> NaNV, B |-> StrV(S_x)],
     [B |-> StrV(S_x)],
     [A |-> StrV(S_empty), B |-> StrV(S_x)]}

DuplicateColumnInputs == { <<"A", "B">>, <<"B", "A">>, <<"A">>, <<"B">> }

Idle ==
    /\ sessions = <<>>
    /\ payload = <<>>
    /\ pc = "idle"
    /\ req = [op |-> "none"]
    /\ ops = 0
    /\ tasks = <<>>
    /\ loop = "none"
    /\ _lock = "free"

InitDetect ==
    /\ Idle
    /\ numericDates \in BOOLEAN
    /\ fnArgs \in {[values |-> v] : v \in DetectInputs}
    /\ fnResult = <<>>
    /\ fnPc = "start"

CallDetectColumnType ==
    /\ fnPc = "start"
    /\ fnResult' = detect_column_type(fnArgs.values)
    /\ fnPc' = "done"
    /\ UNCHANGED <<numericDates, tasks, loop, _lock, sessions, payload, pc, req, ops, fnArgs>>

SpecDetect == InitDetect /\ [][CallDetectColumnType]_vars

InitValidate ==
    /\ Idle
    /\ numericDates \in BOOLEAN
    /\ fnArgs \in {[rows |-> MakeRows(v, ids), expected_types |-> t] :
                       v \in SeqsUpTo(ValidateRowValues, MaxValidateRows),
                       ids \in {"dense", "sparse"},
                       t \in ExpectedTypeInputs}
    /\ fnResult = <<>>
    /\ fnPc = "start"

CallValidateRows ==
    /\ fnPc = "start"
    /\ fnResult' = validate_rows(fnArgs.rows, fnArgs.expected_types)
    /\ fnPc' = "done"
    /\ UNCHANGED <<numericDates, tasks, loop, _lock, sessions, payload, pc, req, ops, fnArgs>>

SpecValidate == InitValidate /\ [][CallValidateRows]_vars

InitDuplicates ==
    /\ Idle
    /\ numericDates \in BOOLEAN
    /\ fnArgs \in {[rows |-> MakeRows(v, ids), columns |-> c] :
                       v \in SeqsUpTo(DuplicateRowValues, MaxDuplicateRows),
                       ids \in {"dense", "sparse"},
                       c \in DuplicateColumnInputs}
    /\ fnResult = <<>>
    /\ fnPc = "start"

CallIdentifyDuplicates ==
    /\ fnPc = "start"
    /\ fnResult' = identify_duplicates(fnArgs.rows, fnArgs.columns)
    /\ fnPc' = "done"
    /\ UNCHANGED <<numericDates, tasks, loop, _lock, sessions, payload, pc, req, ops, fnArgs>>

SpecDuplicates == InitDuplicates /\ [][CallIdentifyDuplicates]_vars

(* validate_rows called twice by a caller that holds rows and              *)
(* expected_types across the calls, as revalidate holds them after its     *)
(* call; fnResult is the list of the results so far                        *)
MaxPipelineRows == 2

PipelineRowValues ==
    DuplicateRowValues \cup {[A |-> StrV(S_abc), B |-> StrV(S_YES_)],
                             [A |-> StrV(S_day), B |-> StrV(S_2)]}

InitPipeline ==
    /\ Idle
    /\ numericDates \in BOOLEAN
    /\ fnArgs \in {[rows |-> MakeRows(v, ids), expected_types |-> t] :
                       v \in SeqsUpTo(PipelineRowValues, MaxPipelineRows),
                       ids \in {"dense", "sparse"},
                       t \in ExpectedTypeInputs}
    /\ fnResult = <<>>
    /\ fnPc = "start"

(* variant: identify_duplicates stores the coerced value back in the row *)
RunValidateRows_CoercesInPlace ==
    /\ fnPc \in {"start", "once"}
    /\ fnResult' = Append(fnResult, validate_rows(fnArgs.rows, fnArgs.expected_types))
    /\ fnArgs' = [fnArgs EXCEPT !.rows =
                     [i \in 1..Len(@) |->
                        [@[i] EXCEPT !.values =
                           [c \in DOMAIN @ |->
                              IF HasKey(fnArgs.expected_types, c)
                              THEN _coerce_duplicate_value(@[c]) ELSE @[c]]]]]
    /\ fnPc' = IF fnPc = "start" THEN "once" ELSE "twice"
    /\ UNCHANGED <<numericDates, tasks, loop, _lock, sessions, payload, pc, req, ops>>

(* one call: the function reads rows and expected_types and builds errors, *)
(* seen and the groups as new objects; it assigns to neither argument      *)
RunValidateRows ==
    /\ fnPc \in {"start", "once"}
    /\ fnResult' = Append(fnResult, validate_rows(fnArgs.rows, fnArgs.expected_types))
    /\ fnPc' = IF fnPc = "start" THEN "once" ELSE "twice"
    /\ UNCHANGED <<numericDates, tasks, loop, _lock, sessions, payload, pc, req, ops, fnArgs>>

SpecPipeline == InitPipeline /\ [][RunValidateRows]_vars

----------------------------------------------------------------------------
(* The request handlers of app/main.py on one session.  The store holds    *)
(* the SessionData object itself, so what remove_rows and revalidate       *)
(* assign to it is in the store at once.                                   *)

MaxOps == 2

Sid == "sid"

(* payload.rows of a validate request: the rows the client was sent, as    *)
(* they are, with a cell edited, or with rowIds of the client's choosing   *)
EditedRows(rows) ==
    IF rows = <<>> THEN rows
    ELSE [rows EXCEPT ![1] = [@ EXCEPT !.values = [c \in DOMAIN @ |-> IF c = "A" THEN StrV(S_7) ELSE @[c]]]]

RenumberedRows(rows) == [i \in 1..Len(rows) |-> [rows[i] EXCEPT !.rowId = 2 * (i \div 2) + 4]]

RowPayloads(s) == {s.rows, EditedRows(s.rows), RenumberedRows(s.rows)}

(* payload.columnTypes *)
ColumnTypePayloads ==
    {EmptyDict, [A |-> T_INTEGER], [A |-> T_currency], [B |-> T_date], [Z |-> T_float]}

(* payload.columns *)
ColumnPayloads(s) ==
    { <<>>,
      s.column_info,
      [i \in 1..Len(s.column_info) |->
          [s.column_info[i] EXCEPT !.detectedType = <<>>, !.overrideType = None]],
      << [name |-> "A", detectedType |-> T_integer, overrideType |-> T_currency, nullable |-> TRUE] >>,
      << [name |-> "B", detectedType |-> T_float, overrideType |-> None, nullable |-> TRUE],
         [name |-> "A", detectedType |-> T_string, overrideType |-> T_boolean, nullable |-> FALSE] >>,
      << [name |-> "B", detectedType |-> T_integer, overrideType |-> None, nullable |-> TRUE],
         [name |-> "B", detectedType |-> T_date, overrideType |-> <<>>, nullable |-> TRUE] >> }

RowIdPayloads == {{}, {1}, {2}, {0, 2}, {6}}

SheetNamePayloads == {"S1", "S2", "Data", "Missing"}

Init ==
    /\ numericDates \in BOOLEAN
    /\ sessions = <<>>
    /\ payload = <<>>
    /\ pc = "idle"
    /\ req = [op |-> "none"]
    /\ ops = 0
    /\ tasks = <<>>
    /\ loop = "none"
    /\ _lock = "free"
    /\ fnArgs = <<>>
    /\ fnResult = <<>>
    /\ fnPc = "none"

upload_excel(file_bytes) ==
    /\ pc = "idle"
    /\ Sid \notin DOMAIN sessions
    /\ sessions' = [t \in {Sid} |-> process_uploaded_file(file_bytes)]
    /\ payload' = <<Payload(sessions'[Sid])>>
    /\ req' = [op |-> "upload"]
    /\ UNCHANGED <<numericDates, tasks, loop, _lock, pc, ops, fnArgs, fnResult, fnPc>>

validate_excel(rows, columnTypes, columns) ==
    /\ pc = "idle"
    /\ Sid \in DOMAIN sessions
    /\ ops < MaxOps
    /\ sessions' = [sessions EXCEPT ![Sid] = revalidate(@, rows, columnTypes, columns)]
    /\ payload' = <<Payload(sessions'[Sid])>>
    /\ req' = [op |-> "validate", columnTypes |-> columnTypes, columns |-> columns]
    /\ ops' = ops + 1
    /\ UNCHANGED <<numericDates, tasks, loop, _lock, pc, fnArgs, fnResult, fnPc>>

(* remove_duplicates, up to the return of remove_rows *)
remove_duplicates_remove(rowIds) ==
    /\ pc = "idle"
    /\ Sid \in DOMAIN sessions
    /\ ops < MaxOps
    /\ sessions' = [sessions EXCEPT ![Sid] = remove_rows(@, rowIds)]
    /\ req' = [op |-> "remove", rowIds |-> rowIds]
    /\ pc' = "removed"
    /\ UNCHANGED <<numericDates, tasks, loop, _lock, payload, ops, fnArgs, fnResult, fnPc>>

(* remove_duplicates, from the call of revalidate to the response *)
remove_duplicates_revalidate ==
    /\ pc = "removed"
    /\ sessions' = [sessions EXCEPT ![Sid] = revalidate(@, @.rows, @.overrides, <<>>)]
    /\ payload' = <<Payload(sessions'[Sid])>>
    /\ pc' = "idle"
    /\ ops' = ops + 1
    /\ UNCHANGED <<numericDates, tasks, loop, _lock, req, fnArgs, fnResult, fnPc>>

HasOverride(s) ==
    \/ \E i \in 1..Len(s.column_info) : Truthy(s.column_info[i].overrideType)
    \/ DOMAIN s.overrides # {}

(* variant: session.overrides is not reset *)
switch_sheet_OverridesKept(sheetName) ==
    /\ pc = "idle"
    /\ Sid \in DOMAIN sessions
    /\ ops < MaxOps
    /\ SeqContains(sessions[Sid].sheet_names, sheetName)
    /\ \E parsed \in {parse_sheet(sessions[Sid].workbook_bytes, sheetName)} :
           sessions' = [sessions EXCEPT ![Sid] =
                           [@ EXCEPT !.rows             = parsed.rows,
                                     !.columns          = parsed.columns,
                                     !.detected_types   = parsed.detected_types,
                                     !.column_info      = parsed.column_info,
                                     !.errors           = parsed.errors,
                                     !.duplicate_groups = parsed.duplicate_groups,
                                     !.sheet_name       = sheetName]]
    /\ payload' = <<Payload(sessions'[Sid])>>
    /\ req' = [op |-> "sheet", sheetName |-> sheetName, status |-> 200,
               overridden |-> HasOverride(sessions[Sid])]
    /\ ops' = ops + 1
    /\ UNCHANGED <<numericDates, tasks, loop, _lock, pc, fnArgs, fnResult, fnPc>>

switch_sheet(sheetName) ==
    /\ pc = "idle"
    /\ Sid \in DOMAIN sessions
    /\ ops < MaxOps
    /\ SeqContains(sessions[Sid].sheet_names, sheetName)
    /\ \E parsed \in {parse_sheet(sessions[Sid].workbook_bytes, sheetName)} :
           sessions' = [sessions EXCEPT ![Sid] =
                           [@ EXCEPT !.rows             = parsed.rows,
                                     !.columns          = parsed.columns,
                                     !.detected_types   = parsed.detected_types,
                                     !.column_info      = parsed.column_info,
                                     !.errors           = parsed.errors,
                                     !.duplicate_groups = parsed.duplicate_groups,
                                     !.sheet_name       = sheetName,
                                     !.overrides        = EmptyDict]]
    /\ payload' = <<Payload(sessions'[Sid])>>
    /\ req' = [op |-> "sheet", sheetName |-> sheetName, status |-> 200,
               overridden |-> HasOverride(sessions[Sid])]
    /\ ops' = ops + 1
    /\ UNCHANGED <<numericDates, tasks, loop, _lock, pc, fnArgs, fnResult, fnPc>>

(* HTTPException(400, "Sheet not found in workbook.") *)
switch_sheet_not_found(sheetName) ==
    /\ pc = "idle"
    /\ Sid \in DOMAIN sessions
    /\ ops < MaxOps
    /\ ~ SeqContains(sessions[Sid].sheet_names, sheetName)
    /\ payload' = <<>>
    /\ req' = [op |-> "sheet", sheetName |-> sheetName, status |-> 400,
               overridden |-> HasOverride(sessions[Sid])]
    /\ ops' = ops + 1
    /\ UNCHANGED <<numericDates, tasks, loop, _lock, sessions, pc, fnArgs, fnResult, fnPc>>

Next ==
    \/ \E file_bytes \in Workbooks : upload_excel(file_bytes)
    \/ /\ Sid \in DOMAIN sessions
       /\ \E rows \in RowPayloads(sessions[Sid]), columnTypes \in ColumnTypePayloads,
             columns \in ColumnPayloads(sessions[Sid]) : validate_excel(rows, columnTypes, columns)
    \/ \E rowIds \in RowIdPayloads : remove_duplicates_remove(rowIds)
    \/ remove_duplicates_revalidate
    \/ \E sheetName \in SheetNamePayloads : switch_sheet(sheetName)
    \/ \E sheetName \in SheetNamePayloads : switch_sheet_not_found(sheetName)

Spec == Init /\ [][Next]_vars

----------------------------------------------------------------------------
(* Two requests on the session store at the same time.  Each handler of    *)
(* app/main.py is a coroutine (async def): the event loop runs it from its *)
(* first statement until it awaits or returns, and runs no other coroutine *)
(* in between.  validate_excel, remove_duplicates and switch_sheet hold no *)
(* await, so each gives the loop back only when it returns or raises.      *)
(* The store returns the SessionData object itself: a handler's local      *)
(* session is the key of the object in sessions, and what it assigns to    *)
(* the object is in the store at once.                                     *)

Tasks == {"t1", "t2"}

ValidateRequest(sessionId, rows, columnTypes, columns) ==
    [op |-> "validate", sessionId |-> sessionId, rows |-> rows, columnTypes |-> columnTypes,
     columns |-> columns, rowIds |-> {}, sheetName |-> ""]

DuplicateRemovalRequest(sessionId, rowIds) ==
    [op |-> "remove", sessionId |-> sessionId, rows |-> <<>>, columnTypes |-> EmptyDict,
     columns |-> <<>>, rowIds |-> rowIds, sheetName |-> ""]

SheetRequest(sessionId, sheetName) ==
    [op |-> "sheet", sessionId |-> sessionId, rows |-> <<>>, columnTypes |-> EmptyDict,
     columns |-> <<>>, rowIds |-> {}, sheetName |-> sheetName]

(* the requests a client holding the upload's payload of session s sends *)
ConcurrentRequests(s) ==
    {ValidateRequest(Sid, rows, columnTypes, columns) :
        rows \in {s.rows, EditedRows(s.rows)},
        columnTypes \in {EmptyDict, [A |-> T_INTEGER]},
        columns \in {<<>>, s.column_info}}
    \cup {DuplicateRemovalRequest(Sid, rowIds) : rowIds \in {{}, {1}, {0, 2}}}
    \cup {SheetRequest(Sid, sheetName) : sheetName \in {"S2", "Missing"}}
    \cup {DuplicateRemovalRequest("unknown", {1})}

(* a coroutine before its first statement *)
NewTask(request) ==
    [request |-> request, pc |-> "start", session |-> "unset", updated_rows |-> <<>>,
     result |-> <<>>, status |-> 0]

InitConcurrent ==
    /\ numericDates \in BOOLEAN
    /\ \E file_bytes \in Workbooks :
          /\ sessions = [t \in {Sid} |-> process_uploaded_file(file_bytes)]
          /\ fnArgs = [initial |-> sessions[Sid]]
    /\ tasks \in [Tasks -> {NewTask(r) : r \in ConcurrentRequests(sessions[Sid])}]
    /\ loop = "none"
    /\ _lock = "free"
    /\ payload = <<>>
    /\ pc = "idle"
    /\ req = [op |-> "none"]
    /\ ops = 0
    /\ fnResult = <<>>
    /\ fnPc = "none"

(* the event loop takes a coroutine that is ready to run *)
Schedule(t) ==
    /\ loop = "none"
    /\ tasks[t].pc # "done"
    /\ loop' = t
    /\ UNCHANGED <<numericDates, sessions, payload, pc, req, ops, fnArgs, fnResult, fnPc,
                   tasks, _lock>>

(* session_store.get(sessionId): with self._lock *)
get_acquire(t) ==
    /\ loop = t
    /\ tasks[t].pc = "start"
    /\ _lock = "free"
    /\ _lock' = t
    /\ tasks' = [tasks EXCEPT ![t].pc = "get"]
    /\ UNCHANGED <<numericDates, sessions, payload, pc, req, ops, fnArgs, fnResult, fnPc, loop>>

(* return self._sessions[session_id], and the lock is released *)
get(t) ==
    /\ loop = t
    /\ tasks[t].pc = "get"
    /\ _lock = t
    /\ tasks[t].request.sessionId \in DOMAIN sessions
    /\ _lock' = "free"
    /\ tasks' = [tasks EXCEPT ![t].pc = "compute", ![t].session = tasks[t].request.sessionId]
    /\ UNCHANGED <<numericDates, sessions, payload, pc, req, ops, fnArgs, fnResult, fnPc, loop>>

(* raise KeyError("Session not found"): HTTPException(404) *)
get_KeyError(t) ==
    /\ loop = t
    /\ tasks[t].pc = "get"
    /\ _lock = t
    /\ tasks[t].request.sessionId \notin DOMAIN sessions
    /\ _lock' = "free"
    /\ tasks' = [tasks EXCEPT ![t].pc = "done", ![t].status = 404]
    /\ loop' = "none"
    /\ UNCHANGED <<numericDates, sessions, payload, pc, req, ops, fnArgs, fnResult, fnPc>>

(* validate_excel: result = revalidate(session, rows, columnTypes, columns) *)
validate_excel_compute(t) ==
    /\ loop = t
    /\ tasks[t].pc = "compute"
    /\ tasks[t].request.op = "validate"
    /\ sessions' = [sessions EXCEPT ![tasks[t].session] =
                       revalidate(@, tasks[t].request.rows, tasks[t].request.columnTypes,
                                  tasks[t].request.columns)]
    /\ tasks' = [tasks EXCEPT ![t].pc = "update",
                              ![t].result = Payload(sessions'[tasks[t].session])]
    /\ UNCHANGED <<numericDates, payload, pc, req, ops, fnArgs, fnResult, fnPc, loop, _lock>>

(* variant: the handler awaits after remove_rows, giving the loop back *)
remove_duplicates_remove_rows_Awaits(t) ==
    /\ loop = t
    /\ tasks[t].pc = "compute"
    /\ tasks[t].request.op = "remove"
    /\ sessions' = [sessions EXCEPT ![tasks[t].session] = remove_rows(@, tasks[t].request.rowIds)]
    /\ tasks' = [tasks EXCEPT ![t].pc = "revalidate",
                              ![t].updated_rows = sessions'[tasks[t].session].rows]
    /\ loop' = "none"
    /\ UNCHANGED <<numericDates, payload, pc, req, ops, fnArgs, fnResult, fnPc, _lock>>

(* remove_duplicates: updated_rows = remove_rows(session, rowIds) *)
remove_duplicates_remove_rows(t) ==
    /\ loop = t
    /\ tasks[t].pc = "compute"
    /\ tasks[t].request.op = "remove"
    /\ sessions' = [sessions EXCEPT ![tasks[t].session] = remove_rows(@, tasks[t].request.rowIds)]
    /\ tasks' = [tasks EXCEPT ![t].pc = "revalidate",
                              ![t].updated_rows = sessions'[tasks[t].session].rows]
    /\ UNCHANGED <<numericDates, payload, pc, req, ops, fnArgs, fnResult, fnPc, loop, _lock>>

(* remove_duplicates: result = revalidate(session, updated_rows, session.overrides) *)
remove_duplicates_compute(t) ==
    /\ loop = t
    /\ tasks[t].pc = "revalidate"
    /\ sessions' = [sessions EXCEPT ![tasks[t].session] =
                       revalidate(@, tasks[t].updated_rows, @.overrides, <<>>)]
    /\ tasks' = [tasks EXCEPT ![t].pc = "update",
                              ![t].result = Payload(sessions'[tasks[t].session])]
    /\ UNCHANGED <<numericDates, payload, pc, req, ops, fnArgs, fnResult, fnPc, loop, _lock>>

(* switch_sheet: HTTPException(400, "Sheet not found in workbook.") *)
switch_sheet_raise(t) ==
    /\ loop = t
    /\ tasks[t].pc = "compute"
    /\ tasks[t].request.op = "sheet"
    /\ ~ SeqContains(sessions[tasks[t].session].sheet_names, tasks[t].request.sheetName)
    /\ tasks' = [tasks EXCEPT ![t].pc = "done", ![t].status = 400]
    /\ loop' = "none"
    /\ UNCHANGED <<numericDates, sessions, payload, pc, req, ops, fnArgs, fnResult, fnPc, _lock>>

(* switch_sheet: parse_sheet and the assignments to the session *)
switch_sheet_compute(t) ==
    /\ loop = t
    /\ tasks[t].pc = "compute"
    /\ tasks[t].request.op = "sheet"
    /\ SeqContains(sessions[tasks[t].session].sheet_names, tasks[t].request.sheetName)
    /\ \E parsed \in {parse_sheet(sessions[tasks[t].session].workbook_bytes,
                                  tasks[t].request.sheetName)} :
           sessions' = [sessions EXCEPT ![tasks[t].session] =
                           [@ EXCEPT !.rows             = parsed.rows,
                                     !.columns          = parsed.columns,
                                     !.detected_types   = parsed.detected_types,
                                     !.column_info      = parsed.column_info,
                                     !.errors           = parsed.errors,
                                     !.duplicate_groups = parsed.duplicate_groups,
                                     !.sheet_name       = tasks[t].request.sheetName,
                                     !.overrides        = EmptyDict]]
    /\ tasks' = [tasks EXCEPT ![t].pc = "update",
                              ![t].result = Payload(sessions'[tasks[t].session])]
    /\ UNCHANGED <<numericDates, payload, pc, req, ops, fnArgs, fnResult, fnPc, loop, _lock>>

(* session_store.update(sessionId, session): with self._lock *)
update_acquire(t) ==
    /\ loop = t
    /\ tasks[t].pc = "update"
    /\ _lock = "free"
    /\ _lock' = t
    /\ tasks' = [tasks EXCEPT ![t].pc = "in_update"]
    /\ UNCHANGED <<numericDates, sessions, payload, pc, req, ops, fnArgs, fnResult, fnPc, loop>>

(* self._sessions[session_id] = session, the object the handler got from   *)
(* the store; the lock is released                                         *)
update(t) ==
    /\ loop = t
    /\ tasks[t].pc = "in_update"
    /\ _lock = t
    /\ sessions' = [sessions EXCEPT ![tasks[t].request.sessionId] = sessions[tasks[t].session]]
    /\ _lock' = "free"
    /\ tasks' = [tasks EXCEPT ![t].pc = "return"]
    /\ UNCHANGED <<numericDates, payload, pc, req, ops, fnArgs, fnResult, fnPc, loop>>

(* return result: the coroutine ends *)
return(t) ==
    /\ loop = t
    /\ tasks[t].pc = "return"
    /\ tasks' = [tasks EXCEPT ![t].pc = "done", ![t].status = 200]
    /\ payload' = [u \in DOMAIN payload \cup {t} |-> IF u = t THEN tasks[t].result ELSE payload[u]]
    /\ loop' = "none"
    /\ UNCHANGED <<numericDates, sessions, pc, req, ops, fnArgs, fnResult, fnPc, _lock>>

Step(t) ==
    \/ Schedule(t)
    \/ get_acquire(t)
    \/ get(t)
    \/ get_KeyError(t)
    \/ validate_excel_compute(t)
    \/ remove_duplicates_remove_rows(t)
    \/ remove_duplicates_compute(t)
    \/ switch_sheet_raise(t)
    \/ switch_sheet_compute(t)
    \/ update_acquire(t)
    \/ update(t)
    \/ return(t)

NextConcurrent == \E t \in Tasks : Step(t)

SpecConcurrent == InitConcurrent /\ [][NextConcurrent]_vars

----------------------------------------------------------------------------
(* Properties of the direct calls *)

Blank(v) == v.k \in {"none", "nan"} \/ (v.k = "str" /\ \A i \in 1..Len(v.s) : v.s[i] = " ")

Compatible(v, i) ==
    CASE i = 1 -> _looks_like_int(v)
      [] i = 2 -> _looks_like_float(v)
      [] i = 3 -> _looks_like_bool(v)
      [] i = 4 -> _looks_like_date(v)
      [] OTHER -> TRUE

FirstCompatible(v) == CHOOSE i \in 1..5 : Compatible(v, i) /\ \A j \in 1..(i - 1) : ~ Compatible(v, j)

TagCount(values, i) ==
    Cardinality({p \in 1..Len(values) : ~ Blank(values[p]) /\ FirstCompatible(values[p]) = i})

TagOrder == <<T_integer, T_float, T_boolean, T_date, T_string>>

\* C1: detect_column_type counts each non-null value for the first tag of
\* integer, float, boolean, date it is compatible with (else string) and
\* returns the tag of highest count, the earlier tag on a tie, and "string"
\* when every value is null or blank; [1, "2", "03", None, ""] gives integer.
C1_DetectColumnType ==
    fnPc = "done" =>
        LET values == fnArgs.values
        IN  /\ IF \A i \in 1..5 : TagCount(values, i) = 0
               THEN fnResult = T_string
               ELSE \E i \in 1..5 :
                       /\ fnResult = TagOrder[i]
                       /\ \A j \in 1..5 : TagCount(values, j) <= TagCount(values, i)
                       /\ \A j \in 1..(i - 1) : TagCount(values, j) < TagCount(values, i)
            /\ values = ScenarioC => fnResult = T_integer

C1_Witness ==
    /\ fnPc = "done"
    /\ "values" \in DOMAIN fnArgs
    /\ \E i \in 1..5, j \in 1..5 :
          /\ i < j
          /\ TagCount(fnArgs.values, i) = TagCount(fnArgs.values, j)
          /\ TagCount(fnArgs.values, i) > 0
          /\ \A m \in 1..5 : TagCount(fnArgs.values, m) <= TagCount(fnArgs.values, i)
          /\ fnResult = TagOrder[i]
    /\ \E p \in 1..Len(fnArgs.values) : Blank(fnArgs.values[p])

CompatibleWith(v, expected_type) ==
    IF expected_type = T_integer THEN _looks_like_int(v)
    ELSE IF expected_type = T_float THEN _looks_like_float(v)
    ELSE IF expected_type = T_boolean THEN _looks_like_bool(v)
    ELSE IF expected_type = T_date THEN _looks_like_date(v)
    ELSE TRUE

CellAt(rows, expected_types, p) ==
    LET width == Len(expected_types)
        i     == ((p - 1) \div width) + 1
        j     == ((p - 1) % width) + 1
    IN  [rowId        |-> rows[i].rowId,
         column       |-> expected_types[j][1],
         expectedType |-> expected_types[j][2],
         actualValue  |-> IF expected_types[j][1] \in DOMAIN rows[i].values
                          THEN rows[i].values[expected_types[j][1]]
                          ELSE NoneV]

CellFails(cell) == ~ Blank(cell.actualValue) /\ ~ CompatibleWith(cell.actualValue, cell.expectedType)

\* C2: validate_rows returns, rows in input order and columns in the key
\* order of expected_types, exactly one error per cell whose value is
\* non-null and not compatible with the expected type; a null value or an
\* absent column gives no error, whatever the expected type.
C2_ValidateRows ==
    fnPc = "done" /\ "expected_types" \in DOMAIN fnArgs =>
        LET rows  == fnArgs.rows
            types == fnArgs.expected_types
            cells == [p \in 1..(Len(rows) * Len(types)) |-> CellAt(rows, types, p)]
        IN  fnResult.errors = SelectSeq(cells, CellFails)

C2_Witness ==
    /\ fnPc = "done"
    /\ "expected_types" \in DOMAIN fnArgs
    /\ Len(fnArgs.rows) = 2
    /\ Len(fnResult.errors) = 2
    /\ fnResult.errors[1].rowId = fnArgs.rows[1].rowId
    /\ fnResult.errors[2].rowId = fnArgs.rows[1].rowId
    /\ "A" \notin DOMAIN fnArgs.rows[2].values
    /\ fnArgs.expected_types[1][1] = "B"

NormalizedValue(v) ==
    IF v.k = "str" THEN StrV(StrLower(StrStrip(v.s)))
    ELSE IF v.k = "nan" THEN NoneV
    ELSE v

SameKey(rows, columns, i, j) ==
    \A c \in 1..Len(columns) :
        PyEq(NormalizedValue(Get(rows[i].values, columns[c])),
             NormalizedValue(Get(rows[j].values, columns[c])))

KeyClass(rows, columns, i) == {j \in 1..Len(rows) : SameKey(rows, columns, i, j)}

Least(S) == CHOOSE x \in S : \A y \in S : x <= y

InOrder(S) == [m \in 1..Cardinality(S) |-> CHOOSE x \in S : Cardinality({y \in S : y < x}) = m - 1]

\* C3: identify_duplicates groups the rowIds of the rows whose normalized
\* value tuples over the columns are equal (strings trimmed and lower-cased,
\* NaN as the null marker, other values unchanged, compared as Python
\* compares them); it returns exactly the groups of 2 or more rows, ordered
\* by the first row of each, rowIds in input order inside a group.
C3_IdentifyDuplicates ==
    fnPc = "done" /\ "columns" \in DOMAIN fnArgs =>
        LET rows    == fnArgs.rows
            columns == fnArgs.columns
            classes == {c \in {KeyClass(rows, columns, i) : i \in 1..Len(rows)} : Cardinality(c) >= 2}
            firsts  == InOrder({Least(c) : c \in classes})
        IN  /\ Len(fnResult) = Cardinality(classes)
            /\ \A g \in 1..Len(fnResult) :
                  LET members == InOrder(KeyClass(rows, columns, firsts[g]))
                  IN  fnResult[g] = [m \in 1..Len(members) |-> rows[members[m]].rowId]

C3_Witness ==
    /\ fnPc = "done"
    /\ "columns" \in DOMAIN fnArgs
    /\ fnArgs.columns = <<"A", "B">>
    /\ fnArgs.rows = MakeRows(<<[A |-> IntV(1), B |-> StrV(S_x)],
                                [A |-> IntV(1), B |-> StrV(S_x)],
                                [A |-> IntV(2), B |-> StrV(<<"y">>)]>>, "dense")
    /\ fnResult = << <<0, 1>> >>

----------------------------------------------------------------------------
(* Properties of the session *)

HasSession == Sid \in DOMAIN sessions

RowIds(s) == {s.rows[i].rowId : i \in 1..Len(s.rows)}

RefsResolve(s) ==
    /\ \A e \in 1..Len(s.errors) :
          /\ s.errors[e].rowId \in RowIds(s)
          /\ SeqContains(s.columns, s.errors[e].column)
    /\ \A g \in 1..Len(s.duplicate_groups) :
          /\ Len(s.duplicate_groups[g]) >= 2
          /\ \A m \in 1..Len(s.duplicate_groups[g]) : s.duplicate_groups[g][m] \in RowIds(s)

\* C4 (as claimed): in every session state, also right after remove_rows,
\* every error names a rowId of session.rows and a column of
\* session.columns, and every duplicate group has 2 or more members, all of
\* them rowIds of session.rows.
C4_Original == HasSession => RefsResolve(sessions[Sid])

\* C4 (amended): the same holds after upload, revalidate, sheet switch and
\* the whole duplicate-removal request; between remove_rows and the
\* revalidate that follows it the errors and groups are the stale ones.
C4_RefsResolveBetweenRequests == HasSession /\ pc = "idle" => RefsResolve(sessions[Sid])

C4_Witness ==
    /\ HasSession
    /\ pc = "idle"
    /\ req.op = "remove"
    /\ req.rowIds = {2}
    /\ Len(sessions[Sid].rows) = 3
    /\ sessions[Sid].duplicate_groups = << <<0, 1>> >>
    /\ Len(sessions[Sid].errors) = 1
    /\ sessions[Sid].errors[1].rowId = 2

StoredTypes(s) ==
    {s.detected_types[i][2] : i \in 1..Len(s.detected_types)}
        \cup {s.errors[e].expectedType : e \in 1..Len(s.errors)}
        \cup {s.column_info[i].overrideType : i \in 1..Len(s.column_info)}
        \cup {s.overrides[c] : c \in DOMAIN s.overrides}

\* C5: every expected type used by a validation run (session.detected_types,
\* the expectedType of every error) is one of the five tags, and no override
\* string outside the five tags is stored in session.overrides or in a
\* column's overrideType (an absent override is None or empty).
C5_TypesAreTags ==
    HasSession => StoredTypes(sessions[Sid]) \subseteq (ALLOWED_TYPES \cup {None, <<>>})

\* C6: once the duplicate-removal request (remove_rows, then revalidate) has
\* run, no error and no duplicate-group entry of the session or of the
\* returned payload has a rowId >= the new number of rows.
C6_NoStaleRowIds ==
    HasSession /\ pc = "idle" /\ req.op = "remove" =>
        LET s == sessions[Sid]
            n == Len(s.rows)
            p == payload[1]
        IN  /\ \A e \in 1..Len(s.errors) : s.errors[e].rowId < n
            /\ \A g \in 1..Len(s.duplicate_groups) :
                  \A m \in 1..Len(s.duplicate_groups[g]) : s.duplicate_groups[g][m] < n
            /\ Len(p.rows) = n
            /\ \A e \in 1..Len(p.errors) : p.errors[e].rowId < n
            /\ \A g \in 1..Len(p.duplicateGroups) :
                  \A m \in 1..Len(p.duplicateGroups[g]) : p.duplicateGroups[g][m] < n

C6_Witness ==
    /\ HasSession
    /\ pc = "idle"
    /\ req.op = "remove"
    /\ req.rowIds = {0, 2}
    /\ Len(sessions[Sid].rows) = 2
    /\ Len(sessions[Sid].errors) = 1
    /\ sessions[Sid].errors[1].rowId = 1
    /\ payload[1].errors = sessions[Sid].errors

\* C7: remove_rows keeps exactly the rows whose rowId is not among the given
\* ones, in their order and with their values, numbers them 0..n-1, and
\* leaves errors, duplicate groups and every other field as they were.
C7_RemoveRows ==
    [][pc' = "removed" =>
          LET old  == sessions[Sid]
              new  == sessions'[Sid]
              kept == InOrder({i \in 1..Len(old.rows) : old.rows[i].rowId \notin req'.rowIds})
          IN  /\ Len(new.rows) = Len(kept)
              /\ \A m \in 1..Len(kept) :
                    /\ new.rows[m].rowId = m - 1
                    /\ new.rows[m].values = old.rows[kept[m]].values
              /\ new.errors = old.errors
              /\ new.duplicate_groups = old.duplicate_groups
              /\ [new EXCEPT !.rows = old.rows] = old
              /\ payload' = payload]_vars

C7_Witness ==
    /\ HasSession
    /\ pc = "removed"
    /\ req.rowIds = {1}
    /\ sessions[Sid].sheet_name = "Data"
    /\ Len(sessions[Sid].rows) = 2
    /\ sessions[Sid].rows[2].rowId = 1
    /\ sessions[Sid].rows[2].values["B"] = StrV(S_YES_)
    /\ sessions[Sid].duplicate_groups = << <<0, 2>> >>

\* C8: in every session state the i-th row of session.rows has rowId i,
\* counting from 0.
C8_DenseRowIds ==
    HasSession => \A i \in 1..Len(sessions[Sid].rows) : sessions[Sid].rows[i].rowId = i - 1

(* a step that runs revalidate: the validate request, or the second half   *)
(* of the duplicate-removal request                                        *)
RevalidateStep ==
    \/ pc = "idle" /\ pc' = "idle" /\ req'.op = "validate" /\ ops' = ops + 1
    \/ pc = "removed" /\ pc' = "idle"

GivenOverrides == IF pc = "removed" THEN sessions[Sid].overrides ELSE req'.columnTypes

GivenColumns == IF pc = "removed" THEN <<>> ELSE req'.columns

EffectiveType(s, name) == Lookup(s.detected_types, name)

(* the new override for a column, lower-cased, when that is one of the tags *)
AppliedOverride(name) ==
    IF name \in DOMAIN GivenOverrides /\ GivenOverrides[name] # None
       /\ StrLower(GivenOverrides[name]) \in {T_integer, T_float, T_boolean, T_date, T_string}
    THEN StrLower(GivenOverrides[name])
    ELSE None

(* the column-info entries the call works on: those of the request's list  *)
(* when it has one, else those of the session                              *)
EntriesInUse ==
    IF GivenColumns = <<>> THEN sessions[Sid].column_info
    ELSE [i \in 1..Len(GivenColumns) |->
             [name         |-> GivenColumns[i].name,
              overrideType |-> GivenColumns[i].overrideType,
              detectedType |->
                  IF Truthy(GivenColumns[i].detectedType) THEN GivenColumns[i].detectedType
                  ELSE IF HasKey(sessions[Sid].detected_types, GivenColumns[i].name)
                       THEN EffectiveType(sessions[Sid], GivenColumns[i].name)
                       ELSE T_string]]

FallbackChain(entry) ==
    IF AppliedOverride(entry.name) # None THEN AppliedOverride(entry.name)
    ELSE IF Truthy(entry.overrideType) THEN entry.overrideType
    ELSE IF Truthy(entry.detectedType) THEN entry.detectedType
    ELSE T_string

ChainApplied ==
    LET entries == EntriesInUse
    IN  /\ \A i \in 1..Len(entries) :
              (\A j \in (i + 1)..Len(entries) : entries[j].name # entries[i].name)
                  => EffectiveType(sessions'[Sid], entries[i].name) = FallbackChain(entries[i])
        /\ \A k \in 1..Len(sessions'[Sid].detected_types) :
              \E i \in 1..Len(entries) : entries[i].name = sessions'[Sid].detected_types[k][1]

Discarded(name) == name \in DOMAIN GivenOverrides /\ AppliedOverride(name) = None

TagOrEmpty(x) == x \in ALLOWED_TYPES \cup {None, <<>>}

(* the session and the request's column list carry type tags only *)
OnlyTagsInvolved ==
    /\ \A x \in StoredTypes(sessions[Sid]) : TagOrEmpty(x)
    /\ \A i \in 1..Len(GivenColumns) :
          TagOrEmpty(GivenColumns[i].overrideType) /\ TagOrEmpty(GivenColumns[i].detectedType)

\* C9 (as claimed): revalidate gives each column the new override
\* lower-cased if that is one of the five tags, else the overrideType on the
\* column, else its detectedType, else "string"; and a column whose new
\* override is discarded keeps the effective type it had before the call.
\* Stated for the calls in which every type involved is a tag, so that a
\* violation does not rest on an unrecognised type kept from a column list.
C9_Original ==
    [][RevalidateStep /\ OnlyTagsInvolved =>
          /\ ChainApplied
          /\ \A k \in 1..Len(sessions'[Sid].detected_types) :
                LET name == sessions'[Sid].detected_types[k][1]
                IN  Discarded(name) /\ HasKey(sessions[Sid].detected_types, name)
                       => EffectiveType(sessions'[Sid], name) = EffectiveType(sessions[Sid], name)]_vars

\* C9 (amended): the chain is applied to the column-info entry the call
\* works on, which is the entry of the request's column list when the
\* request carries one; a column whose new override is discarded or absent
\* keeps the effective type it had before the call when the request carries
\* no column list.
C9_EffectiveType ==
    [][RevalidateStep =>
          /\ ChainApplied
          /\ GivenColumns = <<>> =>
                \A k \in 1..Len(sessions'[Sid].detected_types) :
                    LET name == sessions'[Sid].detected_types[k][1]
                    IN  AppliedOverride(name) = None
                           => EffectiveType(sessions'[Sid], name) = EffectiveType(sessions[Sid], name)]_vars

C9_Witness ==
    /\ HasSession
    /\ pc = "idle"
    /\ req.op = "validate"
    /\ req.columns = <<>>
    /\ req.columnTypes = [A |-> T_currency]
    /\ sessions[Sid].column_info[1].name = "A"
    /\ sessions[Sid].column_info[1].detectedType = T_float
    /\ sessions[Sid].column_info[1].overrideType = T_integer
    /\ EffectiveType(sessions[Sid], "A") = T_integer
    /\ sessions[Sid].overrides = [A |-> None]
    /\ sessions[Sid].errors # <<>>

SheetStep == pc = "idle" /\ pc' = "idle" /\ req'.op = "sheet" /\ ops' = ops + 1

\* C10: a switch to one of the session's sheets leaves no override
\* (session.overrides empty, every overrideType None) and makes rows,
\* columns, column info, detected types, errors and duplicate groups those
\* of a fresh build of that sheet from the stored workbook; a switch to any
\* other name fails and leaves the session as it was.
C10_SwitchSheet ==
    [][SheetStep =>
          IF SeqContains(sessions[Sid].sheet_names, req'.sheetName)
          THEN \A fresh \in {parse_sheet(sessions[Sid].workbook_bytes, req'.sheetName)},
                  new \in {sessions'[Sid]} :
                   /\ req'.status = 200
                   /\ new.overrides = EmptyDict
                   /\ \A i \in 1..Len(new.column_info) : new.column_info[i].overrideType = None
                   /\ new.rows = fresh.rows
                   /\ new.columns = fresh.columns
                   /\ new.column_info = fresh.column_info
                   /\ new.detected_types = fresh.detected_types
                   /\ new.errors = fresh.errors
                   /\ new.duplicate_groups = fresh.duplicate_groups
                   /\ new.errors = AllErrors(new.rows, new.detected_types)
                   /\ new.sheet_name = req'.sheetName
                   /\ new.workbook_bytes = sessions[Sid].workbook_bytes
                   /\ new.sheet_names = sessions[Sid].sheet_names
          ELSE /\ req'.status = 400
               /\ sessions' = sessions]_vars

C10_Witness ==
    /\ HasSession
    /\ pc = "idle"
    /\ req.op = "sheet"
    /\ req.status = 200
    /\ req.overridden
    /\ req.sheetName = "S2"
    /\ sessions[Sid].sheet_name = "S2"
    /\ sessions[Sid].overrides = EmptyDict
    /\ sessions[Sid].errors # <<>>

----------------------------------------------------------------------------
(* Properties of two concurrent requests *)

(* what a handler run alone, from its get to its update, leaves in the store *)
Handled(s, request) ==
    CASE request.sessionId # Sid -> s
      [] request.op = "validate" ->
            revalidate(s, request.rows, request.columnTypes, request.columns)
      [] request.op = "remove" ->
            LET removed == remove_rows(s, request.rowIds)
            IN  revalidate(removed, removed.rows, removed.overrides, <<>>)
      [] request.op = "sheet" ->
            IF SeqContains(s.sheet_names, request.sheetName)
            THEN LET parsed == parse_sheet(s.workbook_bytes, request.sheetName)
                 IN  [s EXCEPT !.rows             = parsed.rows,
                               !.columns          = parsed.columns,
                               !.detected_types   = parsed.detected_types,
                               !.column_info      = parsed.column_info,
                               !.errors           = parsed.errors,
                               !.duplicate_groups = parsed.duplicate_groups,
                               !.sheet_name       = request.sheetName,
                               !.overrides        = EmptyDict]
            ELSE s

Serial(first, second) ==
    Handled(Handled(fnArgs.initial, tasks[first].request), tasks[second].request)

AllDone == \A t \in Tasks : tasks[t].pc = "done"

(* between the return of its get and the start of its update *)
BetweenGetAndUpdate(t) == tasks[t].pc \in {"compute", "revalidate", "update"}

InHandler(t) == tasks[t].pc \notin {"start", "done"}

LostUpdate ==
    /\ AllDone
    /\ sessions[Sid] # Serial("t1", "t2")
    /\ sessions[Sid] # Serial("t2", "t1")

====
